---- MODULE Spec2Model ----
(***************************************************************************)
(* wordle_finder: the constraint filter of src/src/app.rs.                 *)
(*                                                                         *)
(* App holds the corpus (words, sorted_common_words, common_words), seven  *)
(* text inputs (five position slots, the inclusion box, the exclusion box) *)
(* and the common-only flag.  App::update handles one Message and then     *)
(* recomputes filtered_words with App::update_filtered_words.              *)
(*                                                                         *)
(* A character is a one-character string, a text or a word a sequence of   *)
(* characters.  String::len() is the length in bytes of the UTF-8          *)
(* encoding: an ASCII character is one byte long, the letter "é" (U+00E9)   *)
(* of the model's alphabet two.                                            *)
(*                                                                         *)
(* A panic ends the process: panic records it, and no message is handled   *)
(* afterwards.                                                             *)
(*                                                                         *)
(* text_editor::Content belongs to the iced library.  Its text is kept;    *)
(* its cursor and selection, which the non-edit actions (Move, Select,     *)
(* Click, Drag, ...) set freely, are an arbitrary range [i, j) of the text *)
(* at each edit: an edit replaces that range (i = j: a bare cursor).       *)
(* Content::text() is the text as edited, its lines joined by "\n"; the    *)
(* text of Content::new() is empty.                                        *)
(***************************************************************************)
EXTENDS Integers, Sequences, FiniteSets, TLC

VARIABLES
    all_words_csv,        \* the lines of data/all_words.csv
    common_words_csv,     \* the lines of data/common_words.csv
    constructed,          \* App::new has returned the App
    panic,                \* the panic that ended the process, or NoPanic
    words,                \* App.words
    sorted_common_words,  \* App.sorted_common_words
    common_words,         \* App.common_words
    filtered_words,       \* App.filtered_words
    position_content,     \* App.position_content, slot index -> text
    including_content,    \* App.including_content, its text
    excluding_content,    \* App.excluding_content, its text
    only_show_common,     \* App.only_show_common
    toggle_run,           \* history: <<only_show_common, filtered_words>> as
                          \* they were before each of the last (at most two)
                          \* ToggleCommonWords that no other message followed
    last_event            \* history: what the last message did to a position
                          \* slot, see EventOfPosition

vars == <<all_words_csv, common_words_csv, constructed, panic,
          words, sorted_common_words, common_words, filtered_words,
          position_content, including_content, excluding_content,
          only_show_common, toggle_run, last_event>>

file_vars == <<all_words_csv, common_words_csv>>

corpus_vars == <<words, sorted_common_words, common_words>>

(***************************************************************************)
(* Bounds and program constants                                            *)
(***************************************************************************)
\* Spec explores the states whose seven inputs hold at most MaxChars
\* characters in all
MaxChars == 2
\* SpecIncluding and SpecExcluding, which edit one input, explore its texts of
\* at most MaxLongText characters
MaxLongText == 6

\* SpecLoad explores the files of at most MaxLines lines
MaxLines == 2

\* position_content: [Content; 5], and the guard idx >= 5
NumSlots == 5
\* the length check of App::new: word.len() != 5
WordLen == 5
\* the inclusion cap: including_content.text().len() < 5
IncludingCap == 5

(***************************************************************************)
(* Characters                                                              *)
(***************************************************************************)
LowerCase == <<"a","b","c","d","e","f","g","h","i","j","k","l","m",
               "n","o","p","q","r","s","t","u","v","w","x","y","z">>
UpperCase == <<"A","B","C","D","E","F","G","H","I","J","K","L","M",
               "N","O","P","Q","R","S","T","U","V","W","X","Y","Z">>

Range(seq) == {seq[i] : i \in 1..Len(seq)}

\* the ASCII case mappings, as tables
AsciiUpperOf ==
    [c \in Range(LowerCase) |->
        UpperCase[CHOOSE i \in 1..Len(LowerCase) : LowerCase[i] = c]]
AsciiLowerOf ==
    [c \in Range(UpperCase) |->
        LowerCase[CHOOSE i \in 1..Len(UpperCase) : UpperCase[i] = c]]

\* the letters of the model's alphabet that are not ASCII, each with the
\* length in bytes of its UTF-8 encoding
Utf8LenOf == [c \in {"é"} |-> 2]

\* char::is_alphabetic, on the characters of the model
is_alphabetic(c) ==
    \/ c \in DOMAIN AsciiUpperOf
    \/ c \in DOMAIN AsciiLowerOf
    \/ c \in DOMAIN Utf8LenOf

\* faulty variant of to_ascii_uppercase: the character as it is typed
to_ascii_uppercase_omitted(c) == c

\* char::to_ascii_uppercase
to_ascii_uppercase(c) ==
    IF c \in DOMAIN AsciiUpperOf THEN AsciiUpperOf[c] ELSE c

\* char::to_ascii_lowercase
to_ascii_lowercase(c) ==
    IF c \in DOMAIN AsciiLowerOf THEN AsciiLowerOf[c] ELSE c

\* char::len_utf8
len_utf8(c) == IF c \in DOMAIN Utf8LenOf THEN Utf8LenOf[c] ELSE 1

\* String::len(): the length in bytes
RECURSIVE ByteLen(_)
ByteLen(text) ==
    IF text = << >> THEN 0 ELSE len_utf8(Head(text)) + ByteLen(Tail(text))

\* str::contains(char)
Contains(text, c) == \E i \in 1..Len(text) : text[i] = c

\* chars().filter(|c| c == &character).count()
CountChar(text, c) == Cardinality({i \in 1..Len(text) : text[i] = c})

\* chars().map(to_ascii_lowercase)
LowerText(text) == [i \in 1..Len(text) |-> to_ascii_lowercase(text[i])]

(***************************************************************************)
(* The files App::new reads and its length check                           *)
(***************************************************************************)
NoPanic == [kind |-> "none", at |-> 0, word |-> << >>]

\* faulty variant of InvalidWord: only the shorter words are refused
InvalidWordShorter(word) == ByteLen(word) < WordLen

\* if word.len() != 5
InvalidWord(word) == ByteLen(word) # WordLen

\* the loop over text.lines().enumerate(): the first line (counted from 1,
\* index + 1) whose word is refused, 0 if every word is accepted
FirstInvalid(lines) ==
    LET refused == {i \in 1..Len(lines) : InvalidWord(lines[i])}
    IN  IF refused = {} THEN 0
        ELSE CHOOSE i \in refused : \A j \in refused : i <= j

\* panic!("Invalid word ... At line [{}], the word [{word}] ...", index + 1)
LoadPanic(lines) ==
    [kind |-> "load", at |-> FirstInvalid(lines),
     word |-> lines[FirstInvalid(lines)]]

\* the files of the explorations of the filter
Corpora ==
    { [all    |-> << <<"a","p","p","l","e">>, <<"p","o","p","p","y">>,
                     <<"a","n","g","l","e">>, <<"p","e","a","r","l">>,
                     <<"m","a","n","g","o">> >>,
       common |-> << <<"m","a","n","g","o">>, <<"a","p","p","l","e">>,
                     <<"p","e","a","r","l">> >>],
      \* stored in display case; one common word is not among the words
      [all    |-> << <<"A","P","P","L","E">>, <<"M","A","N","G","O">>,
                     <<"P","O","P","P","Y">> >>,
       common |-> << <<"P","A","P","E","R">>, <<"A","P","P","L","E">> >>],
      \* a word of five bytes and four characters
      [all    |-> << <<"p","é","o","n">>, <<"a","p","p","l","e">> >>,
       common |-> << <<"a","p","p","l","e">> >>] }

\* the lines of the files of SpecLoad: a word of five ASCII letters, a word
\* of five bytes and four characters, a word of three bytes, and a word of
\* six bytes and five characters
FileEntries ==
    { <<"a","p","p","l","e">>, <<"p","é","o","n">>, <<"p","i","e">>,
      <<"p","é","p","i","n">> }

FilesUpTo(max_lines) ==
    UNION {[1..n -> FileEntries] : n \in 0..max_lines}

Slots == 0..(NumSlots - 1)

EmptyText == << >>

\* the number of characters the seven inputs hold
RECURSIVE SumLen(_, _)
SumLen(positions, index) ==
    IF index >= NumSlots THEN 0
    ELSE Len(positions[index]) + SumLen(positions, index + 1)

TotalChars(positions, including, excluding) ==
    SumLen(positions, 0) + Len(including) + Len(excluding)

(***************************************************************************)
(* App::update_filtered_words                                              *)
(***************************************************************************)
\* faulty variant of BaseWords: the two branches exchanged
BaseWordsExchanged(only_common) ==
    IF only_common THEN words ELSE sorted_common_words

\* the base: sorted_common_words.clone() or words.clone()
BaseWords(only_common) ==
    IF only_common THEN sorted_common_words ELSE words

\* faulty variant of RetainPosition: chars().next() for chars().nth(index)
RetainPositionFirstChar(ws, index, character) ==
    LET Keep(word) == word[1] = character
    IN  SelectSeq(ws, Keep)

\* retain(|word| word.chars().nth(index).unwrap() == character)
RetainPosition(ws, index, character) ==
    LET Keep(word) == word[index + 1] = character
    IN  SelectSeq(ws, Keep)

\* chars().nth(index) is None for a word of ws, and unwrap_or_else panics
\* with the index and the first such word:
\* panic!("Can't access character at index [{index}]: the word [{word}] ...")
RetainPositionPanic(ws, index) ==
    LET lacking == {k \in 1..Len(ws) : Len(ws[k]) <= index}
    IN  IF lacking = {} THEN NoPanic
        ELSE [kind |-> "index", at |-> index,
              word |-> ws[CHOOSE k \in lacking : \A j \in lacking : k <= j]]

\* what Vec::retain leaves when its closure panics: the words before the
\* panicking one are kept or removed, that word and the later ones are kept
RetainPositionUnwound(ws, index, character) ==
    LET lacking == {k \in 1..Len(ws) : Len(ws[k]) <= index}
        first   == CHOOSE k \in lacking : \A j \in lacking : k <= j
    IN  RetainPosition(SubSeq(ws, 1, first - 1), index, character)
            \o SubSeq(ws, first, Len(ws))

\* the loop over position_content.iter()...enumerate(), with the panic of a
\* pass: the panic (NoPanic if every pass completes) and the words left
RECURSIVE PositionPasses(_, _, _)
PositionPasses(ws, positions, index) ==
    IF index >= NumSlots THEN [panic |-> NoPanic, left |-> ws]
    ELSE LET text      == positions[index]
             character == to_ascii_lowercase(Head(text))
         IN  IF text = EmptyText
             THEN PositionPasses(ws, positions, index + 1)
             ELSE IF RetainPositionPanic(ws, index) # NoPanic
             THEN [panic |-> RetainPositionPanic(ws, index),
                   left  |-> RetainPositionUnwound(ws, index, character)]
             ELSE PositionPasses(RetainPosition(ws, index, character),
                                 positions, index + 1)

\* the loop over position_content.iter()...enumerate() when no pass panics
RECURSIVE FilterByPosition(_, _, _)
FilterByPosition(ws, positions, index) ==
    IF index >= NumSlots THEN ws
    ELSE LET text == positions[index]
             next == IF text = EmptyText THEN ws
                     ELSE RetainPosition(ws, index,
                                         to_ascii_lowercase(Head(text)))
         IN  FilterByPosition(next, positions, index + 1)

\* retain(|word| !word.contains(character))
RetainExcluded(ws, character) ==
    LET Keep(word) == ~Contains(word, character)
    IN  SelectSeq(ws, Keep)

\* the loop over excluding_content.text().chars().map(to_ascii_lowercase)
RECURSIVE FilterByExclude(_, _)
FilterByExclude(ws, chars) ==
    IF chars = << >> THEN ws
    ELSE FilterByExclude(RetainExcluded(ws, Head(chars)), Tail(chars))

\* faulty variant of FrequencyMap: an entry is inserted with 1 and never
\* incremented
FrequencyMapNoCount(text) ==
    [c \in Range(LowerText(text)) |-> 1]

\* frequency_map: each lowercased character of the inclusion text with the
\* number of times it occurs
FrequencyMap(text) ==
    LET lower == LowerText(text)
    IN  [c \in Range(lower) |-> CountChar(lower, c)]

\* the orders in which a HashMap with these keys may be iterated
IterationOrders(keys) ==
    {order \in [1..Cardinality(keys) -> keys] :
        \A i, j \in 1..Cardinality(keys) : order[i] = order[j] => i = j}

\* retain(|word| word.chars().filter(|c| c == &character).count() >= frequency)
RetainFrequency(ws, character, frequency) ==
    LET Keep(word) == CountChar(word, character) >= frequency
    IN  SelectSeq(ws, Keep)

\* faulty variant of FilterByFrequency: the loop ends after the entry that is
\* iterated first
FilterByFrequencyFirstEntry(ws, frequency_map, order) ==
    IF order = << >> THEN ws
    ELSE RetainFrequency(ws, Head(order), frequency_map[Head(order)])

\* for (character, frequency) in frequency_map, in the order of iteration
RECURSIVE FilterByFrequency(_, _, _)
FilterByFrequency(ws, frequency_map, order) ==
    IF order = << >> THEN ws
    ELSE FilterByFrequency(
             RetainFrequency(ws, Head(order), frequency_map[Head(order)]),
             frequency_map, Tail(order))

\* the whole of update_filtered_words when it returns, as a function of the
\* state it reads and of the order in which the frequency map is iterated
update_filtered_words(only_common, positions, excluding, including, order) ==
    LET base         == BaseWords(only_common)
        by_position  == FilterByPosition(base, positions, 0)
        by_exclude   == FilterByExclude(by_position, LowerText(excluding))
    IN  FilterByFrequency(by_exclude, FrequencyMap(including), order)

\* faulty variant of BaseCloned: the base is moved out of the App
\* (std::mem::take), not cloned
BaseMovedOut ==
    IF only_show_common'
    THEN sorted_common_words' = << >> /\ UNCHANGED <<words, common_words>>
    ELSE words' = << >> /\ UNCHANGED <<sorted_common_words, common_words>>

\* self.sorted_common_words.clone(), self.words.clone(): the corpus is read
BaseCloned == UNCHANGED <<words, sorted_common_words, common_words>>

\* self.update_filtered_words() at the end of App::update: it returns, or a
\* position pass panics
Recompute ==
    /\ BaseCloned
    /\ LET passes == PositionPasses(BaseWords(only_show_common'),
                                    position_content', 0)
       IN  IF passes.panic = NoPanic
           THEN /\ UNCHANGED panic
                /\ \E order \in IterationOrders(
                                  DOMAIN FrequencyMap(including_content')) :
                       filtered_words' = update_filtered_words(
                           only_show_common', position_content',
                           excluding_content', including_content', order)
           ELSE /\ panic' = passes.panic
                /\ filtered_words' = passes.left

(***************************************************************************)
(* text_editor::Action and Content::perform                                *)
(***************************************************************************)
\* characters typed (Edit::Insert): a letter in lowercase and in uppercase,
\* another letter, and a character that is no letter
InsertChars == {"p", "P", "A", "1"}
\* texts pasted (Edit::Paste): a letter in lowercase and a line break
PasteTexts == { <<"p", "\n">> }

Insert(c) == [kind |-> "Insert", ch |-> c,  txt |-> << >>]
Paste(t)  == [kind |-> "Paste",  ch |-> "", txt |-> t]
Enter     == [kind |-> "Enter",     ch |-> "", txt |-> << >>]
Backspace == [kind |-> "Backspace", ch |-> "", txt |-> << >>]
Delete    == [kind |-> "Delete",    ch |-> "", txt |-> << >>]
\* any Action that is not Action::Edit: Move, Select, Click, Drag, Scroll, ...
NonEdit   == [kind |-> "NonEdit",   ch |-> "", txt |-> << >>]

Actions ==
    {Insert(c) : c \in InsertChars} \cup {Paste(t) : t \in PasteTexts}
        \cup {Enter, Backspace, Delete, NonEdit}

\* text with its range [i, j) replaced by ins
Splice(text, i, j, ins) ==
    SubSeq(text, 1, i) \o ins \o SubSeq(text, j + 1, Len(text))

Ranges(text) == {r \in (0..Len(text)) \X (0..Len(text)) : r[1] <= r[2]}

\* Content::perform(action): the texts the content may hold afterwards.
\* Insert, Paste and Enter replace the selection (or insert at the cursor);
\* Backspace and Delete remove the selection, or one character next to the
\* cursor, or nothing at the end of the text; a non-edit action keeps the text.
Perform(text, action) ==
    LET ins == CASE action.kind = "Insert" -> <<action.ch>>
                 [] action.kind = "Paste"  -> action.txt
                 [] action.kind = "Enter"  -> <<"\n">>
                 [] OTHER                  -> << >>
    IN  IF action.kind = "NonEdit" THEN {text}
        ELSE {Splice(text, r[1], r[2], ins) : r \in Ranges(text)}

(***************************************************************************)
(* App::new                                                                *)
(***************************************************************************)
\* the fields of the App that App::new builds from files it accepts
Constructed(all_lines, common_lines) ==
    /\ words = all_lines
    /\ sorted_common_words = common_lines
    /\ common_words = Range(common_lines)
    /\ filtered_words = all_lines
    /\ position_content = [i \in Slots |-> EmptyText]
    /\ including_content = EmptyText
    /\ excluding_content = EmptyText
    /\ only_show_common = FALSE

\* the state after construction, from files that App::new accepts
Init ==
    \E corpus \in Corpora :
        /\ FirstInvalid(corpus.all) = 0
        /\ FirstInvalid(corpus.common) = 0
        /\ all_words_csv = corpus.all
        /\ common_words_csv = corpus.common
        /\ constructed = TRUE
        /\ panic = NoPanic
        /\ Constructed(corpus.all, corpus.common)
        /\ toggle_run = << >>
        /\ last_event = "other"

\* the process before App::new: the two files, and no App
InitLoad ==
    /\ all_words_csv \in FilesUpTo(MaxLines)
    /\ common_words_csv \in FilesUpTo(MaxLines)
    /\ constructed = FALSE
    /\ panic = NoPanic
    /\ Constructed(<< >>, << >>)
    /\ toggle_run = << >>
    /\ last_event = "other"

\* App::new: data/all_words.csv is read and checked, then
\* data/common_words.csv; the first refused word panics
AppNew ==
    /\ ~constructed
    /\ panic = NoPanic
    /\ UNCHANGED <<file_vars, position_content, including_content,
                   excluding_content, only_show_common, toggle_run>>
    /\ UNCHANGED last_event
    /\ IF FirstInvalid(all_words_csv) # 0
       THEN /\ panic' = LoadPanic(all_words_csv)
            /\ UNCHANGED <<constructed, corpus_vars, filtered_words>>
       ELSE IF FirstInvalid(common_words_csv) # 0
       THEN /\ panic' = LoadPanic(common_words_csv)
            /\ UNCHANGED <<constructed, corpus_vars, filtered_words>>
       ELSE /\ constructed' = TRUE
            /\ words' = all_words_csv
            /\ sorted_common_words' = common_words_csv
            /\ common_words' = Range(common_words_csv)
            /\ filtered_words' = all_words_csv
            /\ UNCHANGED panic

NextLoad == AppNew

SpecLoad == InitLoad /\ [][NextLoad]_vars

(***************************************************************************)
(* App::update, one action per Message                                     *)
(***************************************************************************)
\* the App exists and the process has not panicked
Running == constructed /\ panic = NoPanic

\* history: what a PositionEditAction is, in the state it is sent in
EventOfPosition(idx, action) ==
    IF idx >= NumSlots THEN "out_of_range"
    ELSE CASE action.kind = "Insert" ->
                IF ~is_alphabetic(action.ch) THEN "other"
                ELSE IF /\ position_content[idx] # EmptyText
                        /\ position_content[idx]
                               # <<to_ascii_uppercase(action.ch)>>
                     THEN "replaced"
                ELSE "other"
           [] action.kind \in {"Backspace", "Delete"} ->
                IF position_content[idx] # EmptyText THEN "cleared"
                ELSE "other"
           [] OTHER -> "other"

\* faulty variant of SlotBeforeInsert: the slot keeps its text
SlotBeforeInsertKept(text) == text

\* self.position_content[idx] = text_editor::Content::new() before the
\* character is inserted
SlotBeforeInsert(text) == EmptyText

\* faulty variant of SlotCleared: the slot keeps its text
SlotClearedKept(text) == text

\* self.position_content[idx] = text_editor::Content::new() on Backspace and
\* Delete
SlotCleared(text) == EmptyText

\* faulty variant of WithSlot: the first slot, whatever idx
WithSlotFirst(positions, idx, content) == [positions EXCEPT ![0] = content]

\* self.position_content[idx] = ..., self.position_content[idx].perform(...)
WithSlot(positions, idx, content) == [positions EXCEPT ![idx] = content]

\* Message::PositionEditAction(idx, action).  Each handler takes max_chars,
\* the bound of the exploration: a message after which the inputs would hold
\* more characters is not explored.
PositionEditAction(idx, action, max_chars) ==
    /\ Running
    /\ toggle_run' = << >>
    /\ last_event' = EventOfPosition(idx, action)
    /\ UNCHANGED <<file_vars, constructed, including_content,
                   excluding_content, only_show_common>>
    /\ IF idx >= NumSlots
       THEN \* return
            UNCHANGED <<position_content, filtered_words, corpus_vars, panic>>
       ELSE /\ CASE action.kind = "Insert" ->
                      IF is_alphabetic(action.ch)
                      THEN \E text \in Perform(
                                   SlotBeforeInsert(position_content[idx]),
                                   Insert(to_ascii_uppercase(action.ch))) :
                               position_content' =
                                   WithSlot(position_content, idx, text)
                      ELSE UNCHANGED position_content
                 [] action.kind \in {"Backspace", "Delete"} ->
                      position_content' =
                          WithSlot(position_content, idx,
                                   SlotCleared(position_content[idx]))
                 [] action.kind \in {"Paste", "Enter"} ->
                      UNCHANGED position_content
                 [] OTHER ->
                      \E text \in Perform(position_content[idx], action) :
                          position_content' =
                              WithSlot(position_content, idx, text)
            /\ TotalChars(position_content', including_content',
                          excluding_content') <= max_chars
            /\ Recompute

\* Message::IncludingEditAction(action)
IncludingEditAction(action, max_chars) ==
    /\ Running
    /\ toggle_run' = << >>
    /\ last_event' = "other"
    /\ UNCHANGED <<file_vars, constructed, position_content,
                   excluding_content, only_show_common>>
    /\ IF action.kind = "Insert"
       THEN IF /\ is_alphabetic(action.ch)
               /\ ByteLen(including_content) < IncludingCap
            THEN including_content' \in
                     Perform(including_content,
                             Insert(to_ascii_uppercase(action.ch)))
            ELSE UNCHANGED including_content
       ELSE including_content' \in Perform(including_content, action)
    /\ TotalChars(position_content', including_content',
                  excluding_content') <= max_chars
    /\ Recompute

\* Message::ExcludingEditAction(action)
ExcludingEditAction(action, max_chars) ==
    /\ Running
    /\ toggle_run' = << >>
    /\ last_event' = "other"
    /\ UNCHANGED <<file_vars, constructed, position_content,
                   including_content, only_show_common>>
    /\ IF action.kind = "Insert" /\ ~is_alphabetic(action.ch)
       THEN \* return
            UNCHANGED <<excluding_content, filtered_words, corpus_vars, panic>>
       ELSE /\ IF action.kind = "Insert"
               THEN LET uppercase_charcater == to_ascii_uppercase(action.ch)
                    IN  IF ~Contains(excluding_content, uppercase_charcater)
                        THEN excluding_content' \in
                                 Perform(excluding_content,
                                         Insert(uppercase_charcater))
                        ELSE UNCHANGED excluding_content
               ELSE excluding_content' \in Perform(excluding_content, action)
            /\ TotalChars(position_content', including_content',
                          excluding_content') <= max_chars
            /\ Recompute

\* faulty variant of Toggled: the flag is set, not flipped
ToggledOn(flag) == TRUE

\* self.only_show_common = !self.only_show_common
Toggled(flag) == ~flag

\* Message::ToggleCommonWords
ToggleCommonWords ==
    /\ Running
    /\ only_show_common' = Toggled(only_show_common)
    /\ last_event' = "other"
    /\ UNCHANGED <<file_vars, constructed, position_content,
                   including_content, excluding_content>>
    /\ Recompute
    /\ toggle_run' =
           LET before == <<only_show_common, filtered_words>>
           IN  IF panic' # NoPanic THEN << >>
               ELSE IF Len(toggle_run) = 2 THEN <<toggle_run[2], before>>
               ELSE Append(toggle_run, before)

\* the slot indexes of the messages: every slot and one index out of range
PositionIndexes == Slots \cup {NumSlots}

Next ==
    \/ \E idx \in PositionIndexes, action \in Actions :
           PositionEditAction(idx, action, MaxChars)
    \/ \E action \in Actions : IncludingEditAction(action, MaxChars)
    \/ \E action \in Actions : ExcludingEditAction(action, MaxChars)
    \/ ToggleCommonWords

Spec == Init /\ [][Next]_vars

\* the actions of the explorations of one input with longer texts
LongActions ==
    {Insert("P"), Insert("1"), Backspace, NonEdit}
        \cup {Paste(t) : t \in PasteTexts}

\* only inclusion edits, with longer texts
NextIncluding ==
    \E action \in LongActions : IncludingEditAction(action, MaxLongText)

SpecIncluding == Init /\ [][NextIncluding]_vars

\* only exclusion edits, with longer texts
NextExcluding ==
    \E action \in LongActions : ExcludingEditAction(action, MaxLongText)

SpecExcluding == Init /\ [][NextExcluding]_vars

(***************************************************************************)
(* What the properties below speak of                                      *)
(***************************************************************************)
\* the App is there: App::new has built it and no panic has ended the process
Alive == constructed /\ panic = NoPanic

\* the base sequence the flag chooses
ChosenBase == IF only_show_common THEN sorted_common_words ELSE words

\* two characters are the same letter, whatever their case
SameLetter(c, d) == to_ascii_lowercase(c) = to_ascii_lowercase(d)

\* how often the letter of c occurs in text, in either case
CountLetter(text, c) ==
    Cardinality({i \in 1..Len(text) : SameLetter(text[i], c)})

Occurs(word, ws) == \E i \in 1..Len(ws) : ws[i] = word

\* the constraints of the current state, as the specification words them
SatisfiesPosition(word) ==
    \A i \in Slots :
        position_content[i] # EmptyText =>
            /\ i < Len(word)
            /\ SameLetter(word[i + 1], Head(position_content[i]))

SatisfiesExclusion(word) ==
    \A k \in 1..Len(excluding_content), j \in 1..Len(word) :
        ~SameLetter(word[j], excluding_content[k])

SatisfiesInclusion(word) ==
    \A k \in 1..Len(including_content) :
        CountLetter(word, including_content[k])
            >= CountLetter(including_content, including_content[k])

SatisfiesAll(word) ==
    SatisfiesPosition(word) /\ SatisfiesExclusion(word)
        /\ SatisfiesInclusion(word)

RECURSIVE IsSubsequence(_, _)
IsSubsequence(a, b) ==
    IF a = << >> THEN TRUE
    ELSE IF b = << >> THEN FALSE
    ELSE IF Head(a) = Head(b) THEN IsSubsequence(Tail(a), Tail(b))
    ELSE IsSubsequence(a, Tail(b))

NoPositionSet == \A i \in Slots : position_content[i] = EmptyText

\* what the filter computes for the current state when the frequency map is
\* iterated in the given order
FilterOfState(order) ==
    update_filtered_words(only_show_common, position_content,
                          excluding_content, including_content, order)

OrdersOfState == IterationOrders(DOMAIN FrequencyMap(including_content))

(***************************************************************************)
(* C1: in every reachable state filtered_words is exactly the chosen base  *)
(* restricted to the words that satisfy every position, exclusion and      *)
(* inclusion constraint (letters compared whatever their case) of the      *)
(* current state of the App.                                               *)
(***************************************************************************)
C1_FilteredIsExactFilter ==
    Alive => filtered_words = SelectSeq(ChosenBase, SatisfiesAll)

(***************************************************************************)
(* C2: for every position slot that holds a letter, every word of          *)
(* filtered_words has that letter (in either case) at the slot's index;    *)
(* with every slot empty, the words are those the exclusion and inclusion  *)
(* passes leave of the base.                                               *)
(***************************************************************************)
C2_PositionLettersMatch ==
    Alive =>
        /\ \A i \in Slots :
               position_content[i] # EmptyText =>
                   \A k \in 1..Len(filtered_words) :
                       /\ i < Len(filtered_words[k])
                       /\ SameLetter(filtered_words[k][i + 1],
                                     Head(position_content[i]))
        /\ NoPositionSet =>
               \A order \in OrdersOfState :
                   filtered_words =
                       FilterByFrequency(
                           FilterByExclude(ChosenBase,
                                           LowerText(excluding_content)),
                           FrequencyMap(including_content), order)

\* a slot alone holds a letter and has removed some words of the base, not all
C2_Witness ==
    /\ Alive
    /\ \E i \in Slots : position_content[i] # EmptyText
    /\ including_content = EmptyText /\ excluding_content = EmptyText
    /\ filtered_words # << >>
    /\ Len(filtered_words) < Len(ChosenBase)

(***************************************************************************)
(* C3: no word of filtered_words contains a letter that is present in the  *)
(* exclusion text.                                                         *)
(***************************************************************************)
C3_NoExcludedLetter ==
    Alive => \A k \in 1..Len(filtered_words) : SatisfiesExclusion(filtered_words[k])

(***************************************************************************)
(* C4: every word of filtered_words contains each letter of the inclusion  *)
(* text at least as many times as the inclusion text does; with an empty   *)
(* inclusion text the words are those the position and exclusion passes    *)
(* leave of the base.                                                      *)
(***************************************************************************)
C4_InclusionMultiplicity ==
    Alive =>
        /\ \A k \in 1..Len(filtered_words) :
               SatisfiesInclusion(filtered_words[k])
        /\ including_content = EmptyText =>
               filtered_words =
                   FilterByExclude(FilterByPosition(ChosenBase,
                                                    position_content, 0),
                                   LowerText(excluding_content))

\* the inclusion text holds a letter twice; a word of the base with that
\* letter once has been removed, and words are left
C4_Witness ==
    /\ Alive
    /\ \E k \in 1..Len(including_content) :
           /\ is_alphabetic(including_content[k])
           /\ CountLetter(including_content, including_content[k]) = 2
           /\ \E j \in 1..Len(ChosenBase) :
                  /\ CountLetter(ChosenBase[j], including_content[k]) = 1
                  /\ ~Occurs(ChosenBase[j], filtered_words)
    /\ filtered_words # << >>

(***************************************************************************)
(* C5: filtered_words is a subsequence of the chosen base: words are only  *)
(* removed, never reordered, duplicated or added.                          *)
(***************************************************************************)
C5_SubsequenceOfBase == IsSubsequence(filtered_words, ChosenBase)

\* common-only, with two words or more left and some removed
C5_Witness ==
    /\ Alive
    /\ only_show_common
    /\ Len(filtered_words) >= 2
    /\ Len(filtered_words) < Len(ChosenBase)

(***************************************************************************)
(* C6: filtered_words is a function of the corpus and the filter state     *)
(* alone: in every reachable state, however it was reached, it is what     *)
(* the filter computes for that state, in whatever order the frequency map *)
(* is iterated.                                                            *)
(***************************************************************************)
C6_PureFunctionOfState ==
    Alive => \A order \in OrdersOfState : filtered_words = FilterOfState(order)

\* the frequency map has two entries, and the filter has removed some words
\* and left some
C6_Witness ==
    /\ Alive
    /\ Cardinality(DOMAIN FrequencyMap(including_content)) >= 2
    /\ filtered_words # << >>
    /\ Len(filtered_words) < Len(ChosenBase)

(***************************************************************************)
(* C7: after two ToggleCommonWords in a row, only_show_common and          *)
(* filtered_words are what they were before the first; with no constraint  *)
(* set, toggling on then off gives the words in their order.               *)
(***************************************************************************)
C7_DoubleToggleRestores ==
    Len(toggle_run) = 2 =>
        /\ <<only_show_common, filtered_words>> = toggle_run[1]
        /\ (/\ ~only_show_common
            /\ NoPositionSet
            /\ including_content = EmptyText
            /\ excluding_content = EmptyText) => filtered_words = words

\* two toggles in a row, with a constraint set; the first changed the words
C7_Witness ==
    /\ Len(toggle_run) = 2
    /\ ~NoPositionSet
    /\ filtered_words # << >>
    /\ toggle_run[2][2] # filtered_words

(***************************************************************************)
(* C8: the inclusion text holds at most 5 characters, whatever inclusion   *)
(* edits are made.                                                         *)
(***************************************************************************)
C8_InclusionAtMostFive == Len(including_content) <= 5

(***************************************************************************)
(* C9: the exclusion text contains no letter more than once, whatever      *)
(* exclusion edits are made.                                               *)
(***************************************************************************)
C9_ExclusionNoDuplicate ==
    \A i, j \in 1..Len(excluding_content) :
        (/\ i # j
         /\ is_alphabetic(excluding_content[i])) =>
            ~SameLetter(excluding_content[i], excluding_content[j])

(***************************************************************************)
(* C10: the five position texts, the inclusion text and the exclusion text *)
(* hold alphabetic characters only.                                        *)
(***************************************************************************)
AllAlphabetic(text) == \A k \in 1..Len(text) : is_alphabetic(text[k])

C10_OnlyAlphabetic ==
    /\ \A i \in Slots : AllAlphabetic(position_content[i])
    /\ AllAlphabetic(including_content)
    /\ AllAlphabetic(excluding_content)

(***************************************************************************)
(* What the messages leave as it is                                        *)
(***************************************************************************)
\* the fields of the App and the panic, but for position_content
RestOfApp ==
    <<words, sorted_common_words, common_words, filtered_words,
      including_content, excluding_content, only_show_common, panic>>

\* a letter typed in lowercase and the same letter typed in uppercase
TypedLetterPairs == {<<"p", "P">>}

(***************************************************************************)
(* C11: in every reachable state each position slot holds at most one      *)
(* character, and an Insert of an alphabetic character into a slot leaves  *)
(* in the slot exactly the letter typed, whatever the slot held.           *)
(***************************************************************************)
C11_SlotHoldsTypedLetter ==
    /\ [](\A i \in Slots : Len(position_content[i]) <= 1)
    /\ [][\A idx \in Slots, c \in InsertChars :
              (/\ is_alphabetic(c)
               /\ PositionEditAction(idx, Insert(c), MaxChars)) =>
                  /\ Len(position_content'[idx]) = 1
                  /\ SameLetter(position_content'[idx][1], c)]_vars

\* the last message typed a letter into a slot that held another letter
C11_Witness ==
    /\ last_event = "replaced"
    /\ Alive
    /\ \E i \in Slots : Len(position_content[i]) = 1

(***************************************************************************)
(* C12: from files that App::new accepts, no position pass panics for a    *)
(* word that has no character at the index of the pass.                    *)
(***************************************************************************)
C12_NoPanicForMissingCharacter == panic.kind # "index"

(***************************************************************************)
(* C13: once App::new has run: if a line of data/all_words.csv or of       *)
(* data/common_words.csv has a length (String::len) other than 5, it has   *)
(* panicked with the number, counted from 1, and the text of the first     *)
(* such line of the file read first, and no App is built; otherwise the    *)
(* App is built, and words and sorted_common_words are the lines of the    *)
(* two files in their order.                                               *)
(***************************************************************************)
HasOtherLength(lines) == \E i \in 1..Len(lines) : ByteLen(lines[i]) # 5

LowerWords(ws) == [k \in 1..Len(ws) |-> LowerText(ws[k])]

C14_CaseOfCorpusIrrelevant ==
    Alive =>
        \A order \in OrdersOfState :
            LowerWords(filtered_words) =
                FilterByFrequency(
                    FilterByExclude(
                        FilterByPosition(LowerWords(ChosenBase),
                                         position_content, 0),
                        LowerText(excluding_content)),
                    FrequencyMap(including_content), order)

C16_RejectedInsertIgnored ==
    [][\A c \in InsertChars :
          /\ ~is_alphabetic(c) =>
                 \A idx \in Slots :
                     (\/ PositionEditAction(idx, Insert(c), MaxChars)
                      \/ IncludingEditAction(Insert(c), MaxChars)
                      \/ ExcludingEditAction(Insert(c), MaxChars))
                         => UNCHANGED <<position_content, RestOfApp>>
          /\ (/\ is_alphabetic(c)
              /\ Len(including_content) >= 5
              /\ IncludingEditAction(Insert(c), MaxChars))
                 => UNCHANGED <<position_content, RestOfApp>>
          /\ (/\ is_alphabetic(c)
              /\ \E k \in 1..Len(excluding_content) :
                     SameLetter(excluding_content[k], c)
              /\ ExcludingEditAction(Insert(c), MaxChars))
                 => UNCHANGED <<position_content, RestOfApp>>]_vars

(***************************************************************************)
(* C17: no message changes words, sorted_common_words or common_words.     *)
(***************************************************************************)
C17_CorpusImmutable ==
    [][UNCHANGED <<words, sorted_common_words, common_words>>]_vars

\* messages have changed every kind of input, and the corpus is the files
C17_Witness ==
    /\ Alive
    /\ only_show_common
    /\ ~NoPositionSet
    /\ including_content # EmptyText \/ excluding_content # EmptyText
    /\ words = all_words_csv
    /\ sorted_common_words = common_words_csv
    /\ common_words = Range(common_words_csv)

(***************************************************************************)
(* C18: a Backspace or a Delete on a position slot leaves the slot empty,  *)
(* whatever it held, and the filtered_words that the update returns with   *)
(* are the words of the base that the other slots, the exclusion text and  *)
(* the inclusion text keep: no word is removed for its character at the    *)
(* index of the slot.                                                      *)
(***************************************************************************)
\* word passes every pass of the next state but the pass of slot idx
KeptButFor(idx, word) ==
    /\ \A j \in Slots \ {idx} :
           position_content'[j] # EmptyText =>
               /\ j < Len(word)
               /\ word[j + 1] = to_ascii_lowercase(Head(position_content'[j]))
    /\ \A k \in 1..Len(excluding_content') :
           \A j \in 1..Len(word) :
               word[j] # to_ascii_lowercase(excluding_content'[k])
    /\ \A k \in 1..Len(including_content') :
           LET character == to_ascii_lowercase(including_content'[k])
           IN  Cardinality({j \in 1..Len(word) : word[j] = character})
                   >= Cardinality({j \in 1..Len(including_content') :
                          to_ascii_lowercase(including_content'[j])
                              = character})

C18_ClearedSlotConstrainsNothing ==
    [][\A idx \in Slots :
          \/ /\ position_content'[idx] = EmptyText
             /\ panic' = NoPanic =>
                    LET Kept(word) == KeptButFor(idx, word)
                        base == IF only_show_common'
                                THEN sorted_common_words' ELSE words'
                    IN  filtered_words' = SelectSeq(base, Kept)
          \/ ~\E action \in {Backspace, Delete} :
                  PositionEditAction(idx, action, MaxChars)]_vars

\* the last message cleared the one slot that held a letter; the inclusion
\* text still removes words, and words are left
C18_Witness ==
    /\ last_event = "cleared"
    /\ Alive
    /\ NoPositionSet
    /\ including_content # EmptyText
    /\ filtered_words # << >>

(***************************************************************************)
(* C19: the passes of the position, exclusion and inclusion filters,       *)
(* applied to the base with the three filters in any of their six orders   *)
(* and the passes of each filter in any order, leave filtered_words.       *)
(***************************************************************************)
\* the passes of update_filtered_words in the current state
PositionPassesOfState ==
    {[filter |-> "position", at |-> i,
      character |-> to_ascii_lowercase(Head(position_content[i])),
      frequency |-> 0] : i \in {j \in Slots : position_content[j] # EmptyText}}

ExclusionPassesOfState ==
    {[filter |-> "exclusion", at |-> k,
      character |-> to_ascii_lowercase(excluding_content[k]),
      frequency |-> 0] : k \in 1..Len(excluding_content)}

InclusionPassesOfState ==
    {[filter |-> "inclusion", at |-> 0, character |-> c,
      frequency |-> FrequencyMap(including_content)[c]] :
          c \in DOMAIN FrequencyMap(including_content)}

PassesOfState ==
    PositionPassesOfState \cup ExclusionPassesOfState
        \cup InclusionPassesOfState

\* the passes in a sequence, each once, those of a filter next to each other
FilterOrdersOfState ==
    LET n == Cardinality(PassesOfState)
    IN  {order \in [1..n -> PassesOfState] :
            /\ \A i, j \in 1..n : order[i] = order[j] => i = j
            /\ \A i, j, k \in 1..n :
                   (i < j /\ j < k /\ order[i].filter = order[k].filter)
                       => order[j].filter = order[i].filter}

\* one retain pass: the words left, or the panic of a position pass
ApplyPass(ws, pass) ==
    CASE pass.filter = "position" ->
             IF RetainPositionPanic(ws, pass.at) # NoPanic
             THEN [panic |-> RetainPositionPanic(ws, pass.at), left |-> ws]
             ELSE [panic |-> NoPanic,
                   left  |-> RetainPosition(ws, pass.at, pass.character)]
      [] pass.filter = "exclusion" ->
             [panic |-> NoPanic, left |-> RetainExcluded(ws, pass.character)]
      [] OTHER ->
             [panic |-> NoPanic,
              left  |-> RetainFrequency(ws, pass.character, pass.frequency)]

RECURSIVE ApplyPasses(_, _)
ApplyPasses(ws, order) ==
    IF order = << >> THEN [panic |-> NoPanic, left |-> ws]
    ELSE LET first == ApplyPass(ws, Head(order))
         IN  IF first.panic # NoPanic THEN first
             ELSE ApplyPasses(first.left, Tail(order))

C19_FiltersCommute ==
    Alive =>
        \A order \in FilterOrdersOfState :
            ApplyPasses(ChosenBase, order)
                = [panic |-> NoPanic, left |-> filtered_words]

(***************************************************************************)
(* C20: a PositionEditAction leaves the other four slots, the inclusion    *)
(* text, the exclusion text and the flag as they are, and one with an      *)
(* index of 5 or more leaves everything as it is; an IncludingEditAction   *)
(* leaves the slots, the exclusion text and the flag as they are; an       *)
(* ExcludingEditAction leaves the slots, the inclusion text and the flag   *)
(* as they are; a ToggleCommonWords leaves the seven texts as they are.    *)
(***************************************************************************)
OtherSlotsUnchanged(idx) ==
    \A j \in Slots \ {idx} : position_content'[j] = position_content[j]

C20_EventChangesOnlyItsInput ==
    [][/\ \A idx \in PositionIndexes :
              \/ /\ OtherSlotsUnchanged(idx)
                 /\ UNCHANGED <<including_content, excluding_content,
                                only_show_common>>
                 /\ idx >= 5 => UNCHANGED <<position_content, RestOfApp>>
              \/ ~\E action \in Actions :
                      PositionEditAction(idx, action, MaxChars)
       /\ \/ UNCHANGED <<position_content, excluding_content,
                         only_show_common>>
          \/ ~\E action \in Actions : IncludingEditAction(action, MaxChars)
       /\ \/ UNCHANGED <<position_content, including_content,
                         only_show_common>>
          \/ ~\E action \in Actions : ExcludingEditAction(action, MaxChars)
       /\ \/ UNCHANGED <<position_content, including_content,
                         excluding_content>>
          \/ ~ToggleCommonWords]_vars

\* the last message had an index out of range, in a state where a slot, a
\* text and the flag are set
C20_Witness ==
    /\ last_event = "out_of_range"
    /\ Alive
    /\ ~NoPositionSet
    /\ including_content # EmptyText \/ excluding_content # EmptyText
    /\ only_show_common

====
